---- MODULE Spec2Model ----
(***************************************************************************)
(* Model of the ingestion scheduler of sah21il/LoopAIProj:                 *)
(*   ingestion/views.py   ingest, get_status                               *)
(*   ingestion/tasks.py   QueueItem, BatchProcessor                        *)
(*   ingestion/models.py  IngestionRequest.status, Batch                   *)
(* Threads: one per ingest call, the worker threads started by             *)
(* start_processing, one _process_batch thread per dispatched item, and    *)
(* the wall clock.                                                         *)
(***************************************************************************)
EXTENDS Integers, Sequences, FiniteSets, TLC

\* ------------------------------------------------------------------ bounds
NumReqs == 2        \* concurrent ingest calls (each on its own request thread)
MaxBatches == 3     \* Batch rows the concurrent ingest calls create in all
MaxIds == 10        \* longest id list of the single-submission specification
MaxRows == 4        \* Batch rows of the submission a restarted server finds

\* ------------------------------------------------------- program constants
batch_size == 3
rate_limit_seconds == 5
min_length == 1
max_length == 1000

Reqs == 1..NumReqs
PriorityChoices == {"HIGH", "MEDIUM", "LOW"}
PriorityInputs == PriorityChoices \cup {"URGENT"}

YET_TO_START == "yet_to_start"
TRIGGERED == "triggered"
COMPLETED == "completed"

VARIABLES
    req,                  \* request thread r: pc, data, ids, priority, created_time, i, code,
                          \*   fresh (the clock has not moved since ingest returned)
    requests,             \* IngestionRequest table: ingestion ids, creation order
    batches,              \* Batch table, creation order; batch_id = position
    queue,                \* BatchProcessor.queue, the heapq array
    lock,                 \* BatchProcessor.lock: 0 free, r held by request r
    last_processed_time,  \* BatchProcessor.last_processed_time
    processing,           \* BatchProcessor.processing
    worker_thread,        \* BatchProcessor.worker_thread: 0 None, else instance
    worker,               \* worker thread instance w: pc, until (end of the sleep),
                          \*   seen (Batch rows that existed when the wait began)
    tasks,                \* _process_batch threads, in launch order
    resp,                 \* the get_status response being returned (and query, the id
                          \*   asked for), else NoResp
    now,                  \* time.time(), in whole seconds
    stamp                 \* the latest reading of timezone.now().timestamp()

vars == <<req, requests, batches, queue, lock, last_processed_time, processing,
          worker_thread, worker, tasks, resp, now, stamp>>

Min(a, b) == IF a < b THEN a ELSE b

\* ------------------------------------------------------------- QueueItem
\* QueueItem.__lt__ with the priority comparison left out
Lt_created_only(self, other) == self.created_time < other.created_time

\* QueueItem.__lt__
Lt(self, other) ==
    IF self.priority_value # other.priority_value
    THEN self.priority_value < other.priority_value
    ELSE self.created_time < other.created_time

\* BatchProcessor.get_priority_value
get_priority_value(priority) ==
    CASE priority = "HIGH" -> 1
      [] priority = "MEDIUM" -> 2
      [] priority = "LOW" -> 3
      [] OTHER -> 3

\* ----------------------------------------------------------------- heapq
\* Positions are 0-based as in heapq; heap[pos + 1] is heapq's heap[pos].
RECURSIVE siftdown(_, _, _, _)
siftdown(heap, startpos, pos, newitem) ==
    IF pos > startpos
    THEN LET parentpos == (pos - 1) \div 2
             parent == heap[parentpos + 1]
         IN IF Lt(newitem, parent)
            THEN siftdown([heap EXCEPT ![pos + 1] = parent], startpos, parentpos, newitem)
            ELSE [heap EXCEPT ![pos + 1] = newitem]
    ELSE [heap EXCEPT ![pos + 1] = newitem]

RECURSIVE siftup(_, _, _, _)
siftup(heap, startpos, pos, newitem) ==
    LET endpos == Len(heap)
        leftpos == 2 * pos + 1
        rightpos == leftpos + 1
    IN IF leftpos < endpos
       THEN LET childpos == IF rightpos < endpos
                                  /\ ~Lt(heap[leftpos + 1], heap[rightpos + 1])
                            THEN rightpos ELSE leftpos
            IN siftup([heap EXCEPT ![pos + 1] = heap[childpos + 1]],
                      startpos, childpos, newitem)
       ELSE siftdown([heap EXCEPT ![pos + 1] = newitem], startpos, pos, newitem)

heappush(heap, item) ==
    siftdown(Append(heap, item), 0, Len(heap), item)

\* the item heappop returns: heap[0], which is also the last element when
\* the heap holds one item
heappop_item(heap) == heap[1]

\* heap[0] read without being removed
heappop_peek(heap) == heap

\* the heap heappop leaves
heappop_rest(heap) ==
    LET lastelt == heap[Len(heap)]
        rest == SubSeq(heap, 1, Len(heap) - 1)
    IN IF rest = <<>> THEN rest
       ELSE siftup([rest EXCEPT ![1] = lastelt], 0, 0, lastelt)

\* ------------------------------------------------------------- the inputs
Ids(r, L) == [k \in 1..L |-> 10 * r + k]

\* request.data: the JSON body.  A field may be absent; an element of ids is
\* a JSON value that IntegerField can convert to an int (is_int, value) or
\* one it cannot, such as "a"
JsonInt(n) == [is_int |-> TRUE, value |-> n]
JsonNotInt == [is_int |-> FALSE, value |-> 0]
JsonInts(ids) == [k \in 1..Len(ids) |-> JsonInt(ids[k])]
RequestBody(ids, priority) ==
    [has_ids |-> TRUE, ids |-> ids, has_priority |-> TRUE, priority |-> priority]
NoData == [has_ids |-> FALSE, ids |-> <<>>, has_priority |-> FALSE, priority |-> ""]

\* bodies a client posts besides lists of sound ids: too long a list, an id
\* below or above the range, an id that is no integer, a field left out
OddBodies(r) ==
    {RequestBody(JsonInts(Ids(r, max_length + 1)), "HIGH"),
     RequestBody(<<JsonInt(0)>>, "HIGH"),
     RequestBody(<<JsonInt(10^9 + 8)>>, "HIGH"),
     RequestBody(<<JsonInt(10 * r + 1), JsonNotInt>>, "HIGH"),
     [RequestBody(JsonInts(Ids(r, 1)), "HIGH") EXCEPT !.has_priority = FALSE, !.priority = ""],
     [RequestBody(<<>>, "HIGH") EXCEPT !.has_ids = FALSE]}

\* the bodies drawn: id lists of the lengths Ls with each priority, and the
\* odd ones
RequestData(r, Ls) ==
    {RequestBody(JsonInts(Ids(r, L)), priority) : L \in Ls, priority \in PriorityInputs}
        \cup OddBodies(r)

\* IngestionRequestSerializer.is_valid with min_length left out
is_valid_no_min_length(data) ==
    /\ data.has_ids
    /\ data.has_priority
    /\ Len(data.ids) <= max_length
    /\ \A k \in 1..Len(data.ids) :
          data.ids[k].is_int /\ data.ids[k].value >= 1 /\ data.ids[k].value <= 10^9 + 7
    /\ data.priority \in PriorityChoices

\* IngestionRequestSerializer.is_valid: both fields are required
is_valid(data) ==
    /\ data.has_ids
    /\ data.has_priority
    /\ Len(data.ids) >= min_length
    /\ Len(data.ids) <= max_length
    /\ \A k \in 1..Len(data.ids) :
          data.ids[k].is_int /\ data.ids[k].value >= 1 /\ data.ids[k].value <= 10^9 + 7
    /\ data.priority \in PriorityChoices

\* serializer.validated_data
validated_data(data) ==
    [ids |-> [k \in 1..Len(data.ids) |-> data.ids[k].value], priority |-> data.priority]

\* len(range(0, L, batch_size)): the iterations of the loop of add_batches
NumBatches(L) == (L + batch_size - 1) \div batch_size

\* id-list lengths the concurrent ingest calls submit: the empty list, and
\* one length for each batch count that leaves room for a second submission
Lengths == {0} \cup {batch_size * (n - 1) + 1 : n \in 1..(MaxBatches - 1)}

\* ------------------------------------------------------------------- Init
NoReq == [pc |-> "idle", data |-> NoData, ids |-> <<>>, priority |-> "",
          created_time |-> 0, i |-> 0, code |-> 0, fresh |-> FALSE]
NoWorker == [pc |-> "none", until |-> 0, seen |-> 0]
NoResp == [query |-> 0, code |-> 0, ingestion_id |-> 0, status |-> "", batches |-> <<>>]

Init ==
    /\ req = [r \in Reqs |-> NoReq]
    /\ requests = <<>>
    /\ batches = <<>>
    /\ queue = <<>>
    /\ lock = 0
    /\ last_processed_time = 0
    /\ processing = FALSE
    /\ worker_thread = 0
    /\ worker = [w \in Reqs |-> NoWorker]
    /\ tasks = <<>>
    /\ resp = NoResp
    /\ now = rate_limit_seconds   \* the epoch clock is far past 0 at start
    /\ stamp = 0

\* ------------------------------------------------------- views.py: ingest
RECURSIVE SumOver(_, _)
SumOver(S, f) ==
    IF S = {} THEN 0
    ELSE LET x == CHOOSE y \in S : TRUE IN f[x] + SumOver(S \ {x}, f)

\* Batch rows the accepted requests have created or will create
Planned ==
    SumOver(Reqs, [r \in Reqs |->
        IF req[r].pc \in {"idle", "rejected"} THEN 0 ELSE NumBatches(Len(req[r].ids))])

\* lines 28-38: the serializer accepts or rejects request.data, a body of
\* RequestData(r, Ls); room bounds the Batch rows
IngestValidate(r, Ls, room) ==
    /\ req[r].pc = "idle"
    /\ \E data \in RequestData(r, Ls) :
         IF is_valid(data)
         THEN LET ids == validated_data(data).ids
                  priority == validated_data(data).priority
              IN /\ Planned + NumBatches(Len(ids)) <= room
                 /\ req' = [req EXCEPT ![r] = [@ EXCEPT !.pc = "create", !.data = data,
                                                         !.ids = ids, !.priority = priority]]
         ELSE req' = [req EXCEPT ![r] = [@ EXCEPT !.pc = "rejected", !.data = data,
                                                    !.code = 400]]
    /\ resp' = NoResp
    /\ UNCHANGED <<requests, batches, queue, lock, last_processed_time, processing,
                   worker_thread, worker, tasks, now, stamp>>

\* lines 41-45: IngestionRequest.objects.create; the uuid of request r is r
IngestCreate(r) ==
    /\ req[r].pc = "create"
    /\ requests' = Append(requests, r)
    /\ req' = [req EXCEPT ![r].pc = "stamp"]
    /\ resp' = NoResp
    /\ UNCHANGED <<batches, queue, lock, last_processed_time, processing,
                   worker_thread, worker, tasks, now, stamp>>

\* line 48: created_time = timezone.now().timestamp().  created_time is only
\* ever compared with other created_time values (QueueItem.__lt__), so the
\* model keeps the order of the readings: the first reading is 1, a later
\* one repeats the previous reading (the same instant) or exceeds it
IngestStamp(r) ==
    /\ req[r].pc = "stamp"
    /\ \E t \in (IF stamp = 0 THEN {1} ELSE {stamp, stamp + 1}) :
         /\ stamp' = t
         /\ req' = [req EXCEPT ![r] = [@ EXCEPT !.pc = "lock", !.created_time = t]]
    /\ resp' = NoResp
    /\ UNCHANGED <<requests, batches, queue, lock, last_processed_time, processing,
                   worker_thread, worker, tasks, now>>

\* ------------------------------------------------- tasks.py: add_batches
\* line 47: with self.lock
AddBatchesLock(r) ==
    /\ req[r].pc = "lock"
    /\ lock = 0
    /\ lock' = r
    /\ req' = [req EXCEPT ![r] = [@ EXCEPT !.pc = "split", !.i = 0]]
    /\ resp' = NoResp
    /\ UNCHANGED <<requests, batches, queue, last_processed_time, processing,
                   worker_thread, worker, tasks, now, stamp>>

\* line 53 with the slice one short: ids[i:i + batch_size - 1]
Chunk_short(ids, i) == SubSeq(ids, i + 1, Min(i + batch_size - 1, Len(ids)))

\* line 53: ids[i:i + batch_size]
Chunk(ids, i) == SubSeq(ids, i + 1, Min(i + batch_size, Len(ids)))

\* lines 52-73: one iteration of the loop over range(0, len(ids), batch_size);
\* the batch_id of a row is its position in the table
AddBatchesStep(r) ==
    /\ req[r].pc = "split"
    /\ req[r].i < Len(req[r].ids)
    /\ r \in {requests[k] : k \in 1..Len(requests)}    \* IngestionRequest.objects.get
    /\ LET batch_ids == Chunk(req[r].ids, req[r].i)
           batch_id == Len(batches) + 1
           queue_item == [priority_value |-> get_priority_value(req[r].priority),
                          created_time |-> req[r].created_time,
                          batch_id |-> batch_id,
                          ids |-> batch_ids,
                          ingestion_id |-> r]
       IN /\ batches' = Append(batches, [ingestion_request |-> r, ids |-> batch_ids,
                                         status |-> YET_TO_START])
          /\ queue' = heappush(queue, queue_item)
    /\ req' = [req EXCEPT ![r].i = @ + batch_size]
    /\ resp' = NoResp
    /\ UNCHANGED <<requests, lock, last_processed_time, processing,
                   worker_thread, worker, tasks, now, stamp>>

\* Thread.is_alive of worker instance w
is_alive(w) == worker[w].pc \notin {"none", "dead"}

\* line 81 without the is_alive test
may_start_always == TRUE

\* line 81: the guard of start_processing
may_start == worker_thread = 0 \/ ~is_alive(worker_thread)

\* lines 75-77 and start_processing, then the lock is released and ingest
\* returns 201 (lines 51-57); the instance that request r starts is instance r
AddBatchesFinish(r) ==
    /\ req[r].pc = "split"
    /\ req[r].i >= Len(req[r].ids)
    /\ IF ~processing /\ may_start
       THEN /\ processing' = TRUE
            /\ worker_thread' = r
            /\ worker' = [worker EXCEPT ![r] = [NoWorker EXCEPT !.pc = "check"]]
       ELSE UNCHANGED <<processing, worker_thread, worker>>
    /\ lock' = 0
    /\ req' = [req EXCEPT ![r] = [@ EXCEPT !.pc = "done", !.code = 201, !.fresh = TRUE]]
    /\ resp' = NoResp
    /\ UNCHANGED <<requests, batches, queue, last_processed_time, tasks, now, stamp>>

\* ---------------------------------------------- tasks.py: _process_queue
\* lines 97-103 with the elapsed time taken for the time to wait
wait_time_elapsed(current_time) ==
    LET time_since_last_process == current_time - last_processed_time
    IN IF time_since_last_process < rate_limit_seconds
       THEN time_since_last_process
       ELSE 0

\* lines 97-103
wait_time_at(current_time) ==
    LET time_since_last_process == current_time - last_processed_time
    IN IF time_since_last_process < rate_limit_seconds
       THEN rate_limit_seconds - time_since_last_process
       ELSE 0

\* lines 90-103 without the emptiness check of lines 92-94: the loop goes on
\* to the wait whatever the queue holds
WorkerCheck_no_break(w) ==
    /\ worker[w].pc = "check"
    /\ lock = 0
    /\ LET current_time == now
           wait_time == wait_time_at(current_time)
       IN worker' = [worker EXCEPT ![w] = [pc |-> "wait",
              until |-> IF wait_time > 0 THEN current_time + wait_time ELSE 0,
              seen |-> Len(batches)]]
    /\ resp' = NoResp
    /\ UNCHANGED <<req, requests, batches, queue, lock, last_processed_time,
                   processing, worker_thread, tasks, now, stamp>>

\* lines 90-103 without "self.processing = False" at line 93
WorkerCheck_keeps_flag(w) ==
    /\ worker[w].pc = "check"
    /\ lock = 0
    /\ IF queue = <<>>
       THEN worker' = [worker EXCEPT ![w].pc = "exiting"]
       ELSE LET current_time == now
                wait_time == wait_time_at(current_time)
            IN worker' = [worker EXCEPT ![w] = [pc |-> "wait",
                   until |-> IF wait_time > 0 THEN current_time + wait_time ELSE 0,
                   seen |-> Len(batches)]]
    /\ resp' = NoResp
    /\ UNCHANGED <<req, requests, batches, queue, lock, last_processed_time,
                   processing, worker_thread, tasks, now, stamp>>

\* lines 90-103 reached only after a join() of the _process_batch thread
\* started at lines 117-121: the loop waits for the task it launched
WorkerCheck_joining(w) ==
    /\ worker[w].pc = "check"
    /\ \A t \in 1..Len(tasks) : tasks[t].pc = "done"
    /\ lock = 0
    /\ IF queue = <<>>
       THEN /\ processing' = FALSE
            /\ worker' = [worker EXCEPT ![w].pc = "exiting"]
       ELSE /\ LET current_time == now
                   wait_time == wait_time_at(current_time)
               IN worker' = [worker EXCEPT ![w] = [pc |-> "wait",
                      until |-> IF wait_time > 0 THEN current_time + wait_time ELSE 0,
                      seen |-> Len(batches)]]
            /\ UNCHANGED processing
    /\ resp' = NoResp
    /\ UNCHANGED <<req, requests, batches, queue, lock, last_processed_time,
                   worker_thread, tasks, now, stamp>>

\* lines 90-108 with the sleep inside the "with self.lock" block: the lock
\* (owner -w) is kept through the wait
WorkerCheck_holding(w) ==
    /\ worker[w].pc = "check"
    /\ lock = 0
    /\ IF queue = <<>>
       THEN /\ processing' = FALSE
            /\ worker' = [worker EXCEPT ![w].pc = "exiting"]
            /\ UNCHANGED lock
       ELSE /\ LET current_time == now
                   wait_time == wait_time_at(current_time)
               IN worker' = [worker EXCEPT ![w] = [pc |-> "wait",
                      until |-> IF wait_time > 0 THEN current_time + wait_time ELSE 0,
                      seen |-> Len(batches)]]
            /\ lock' = -w
            /\ UNCHANGED processing
    /\ resp' = NoResp
    /\ UNCHANGED <<req, requests, batches, queue, last_processed_time,
                   worker_thread, tasks, now, stamp>>

\* lines 90-103: the first locked section.  time.sleep(wait_time) of line 108
\* returns no earlier than wait_time after current_time was read: until
\* (0 when wait_time is 0 and the sleep is skipped)
WorkerCheck(w) ==
    /\ worker[w].pc = "check"
    /\ lock = 0
    /\ IF queue = <<>>
       THEN /\ processing' = FALSE
            /\ worker' = [worker EXCEPT ![w].pc = "exiting"]
       ELSE /\ LET current_time == now
                   wait_time == wait_time_at(current_time)
               IN worker' = [worker EXCEPT ![w] = [pc |-> "wait",
                      until |-> IF wait_time > 0 THEN current_time + wait_time ELSE 0,
                      seen |-> Len(batches)]]
            /\ UNCHANGED processing
    /\ resp' = NoResp
    /\ UNCHANGED <<req, requests, batches, queue, lock, last_processed_time,
                   worker_thread, tasks, now, stamp>>

\* lines 106-121 without the "with self.lock" of line 111
WorkerPop_unlocked(w) ==
    /\ worker[w].pc = "wait"
    /\ now >= worker[w].until
    /\ IF queue # <<>>
       THEN /\ queue' = heappop_rest(queue)
            /\ last_processed_time' = now
            /\ tasks' = Append(tasks, [queue_item |-> heappop_item(queue), pc |-> "get",
                                       at |-> now, by |-> w])
       ELSE UNCHANGED <<queue, last_processed_time, tasks>>
    /\ worker' = [worker EXCEPT ![w] = [pc |-> "check", until |-> 0, seen |-> 0]]
    /\ resp' = NoResp
    /\ UNCHANGED <<req, requests, batches, lock, processing, worker_thread, now, stamp>>

\* lines 106-121 with the popped batch saved as triggered by the loop, at
\* the pop
WorkerPop_triggering(w) ==
    /\ worker[w].pc = "wait"
    /\ now >= worker[w].until
    /\ lock = 0
    /\ IF queue # <<>>
       THEN /\ queue' = heappop_rest(queue)
            /\ last_processed_time' = now
            /\ tasks' = Append(tasks, [queue_item |-> heappop_item(queue), pc |-> "get",
                                       at |-> now, by |-> w])
            /\ batches' = [batches EXCEPT ![heappop_item(queue).batch_id].status = TRIGGERED]
       ELSE UNCHANGED <<queue, last_processed_time, tasks, batches>>
    /\ worker' = [worker EXCEPT ![w] = [pc |-> "check", until |-> 0, seen |-> 0]]
    /\ resp' = NoResp
    /\ UNCHANGED <<req, requests, lock, processing, worker_thread, now, stamp>>

\* lines 106-121: the wait outside the lock is over, then the second locked
\* section; the _process_batch thread is started with the popped item
\* (at, by: when it was started and by which instance)
WorkerPop(w) ==
    /\ worker[w].pc = "wait"
    /\ now >= worker[w].until
    /\ lock = 0
    /\ IF queue # <<>>
       THEN /\ queue' = heappop_rest(queue)
            /\ last_processed_time' = now
            /\ tasks' = Append(tasks, [queue_item |-> heappop_item(queue), pc |-> "get",
                                       at |-> now, by |-> w])
       ELSE UNCHANGED <<queue, last_processed_time, tasks>>
    /\ worker' = [worker EXCEPT ![w] = [pc |-> "check", until |-> 0, seen |-> 0]]
    /\ resp' = NoResp
    /\ UNCHANGED <<req, requests, batches, lock, processing, worker_thread, now, stamp>>

\* after break at line 94 the thread function returns and the thread ends
WorkerExit(w) ==
    /\ worker[w].pc = "exiting"
    /\ worker' = [worker EXCEPT ![w].pc = "dead"]
    /\ resp' = NoResp
    /\ UNCHANGED <<req, requests, batches, queue, lock, last_processed_time,
                   processing, worker_thread, tasks, now, stamp>>

\* ---------------------------------------------- tasks.py: _process_batch
Tasks == 1..Len(tasks)

\* batch.status = s; batch.save() for the batch of task t
save_status(t, s) == [batches EXCEPT ![tasks[t].queue_item.batch_id].status = s]

\* lines 127-129: the batch is fetched and saved as triggered
TaskTrigger(t) ==
    /\ tasks[t].pc = "get"
    /\ batches' = save_status(t, TRIGGERED)
    /\ tasks' = [tasks EXCEPT ![t].pc = "work"]
    /\ resp' = NoResp
    /\ UNCHANGED <<req, requests, queue, lock, last_processed_time, processing,
                   worker_thread, worker, now, stamp>>

\* lines 134-147: the simulated work, then the batch is saved as completed
TaskComplete(t) ==
    /\ tasks[t].pc = "work"
    /\ batches' = save_status(t, COMPLETED)
    /\ tasks' = [tasks EXCEPT ![t].pc = "done"]
    /\ resp' = NoResp
    /\ UNCHANGED <<req, requests, queue, lock, last_processed_time, processing,
                   worker_thread, worker, now, stamp>>

\* lines 149-155: a statement of the try block raises (the get or the save of
\* lines 127-129, or a statement after them) and the handler fetches the
\* batch and saves it as completed
TaskExcept(t) ==
    /\ tasks[t].pc \in {"get", "work"}
    /\ batches' = save_status(t, COMPLETED)
    /\ tasks' = [tasks EXCEPT ![t].pc = "done"]
    /\ resp' = NoResp
    /\ UNCHANGED <<req, requests, queue, lock, last_processed_time, processing,
                   worker_thread, worker, now, stamp>>

\* lines 149-157: a statement of the try block raises, and so does the get or
\* the save of the handler, which is passed over
TaskExceptPass(t) ==
    /\ tasks[t].pc \in {"get", "work"}
    /\ tasks' = [tasks EXCEPT ![t].pc = "done"]
    /\ resp' = NoResp
    /\ UNCHANGED <<req, requests, batches, queue, lock, last_processed_time,
                   processing, worker_thread, worker, now, stamp>>

\* --------------------------------------------------- the aggregate status
RECURSIVE SelectIdx(_, _, _)
SelectIdx(seq, k, r) ==
    IF k > Len(seq) THEN <<>>
    ELSE (IF seq[k].ingestion_request = r THEN <<k>> ELSE <<>>) \o SelectIdx(seq, k + 1, r)

\* Batch.objects.all() for the filter of views.py lines 81-83
BatchesOf_unfiltered(r) ==
    [k \in 1..Len(batches) |-> [batch_id |-> k, ids |-> batches[k].ids,
                                status |-> batches[k].status]]

\* Batch.objects.filter(ingestion_request=...), in Meta.ordering, as the
\* BatchSerializer renders it: batch_id, ids, status
BatchesOf(r) ==
    LET idx == SelectIdx(batches, 1, r)
    IN [k \in 1..Len(idx) |-> [batch_id |-> idx[k], ids |-> batches[idx[k]].ids,
                               status |-> batches[idx[k]].status]]

\* views.py lines 88-97 with any() for all() at line 92
view_status_any(bs) ==
    IF bs = <<>> THEN "yet_to_start"
    ELSE LET statuses == [k \in 1..Len(bs) |-> bs[k].status]
         IN IF \E k \in 1..Len(statuses) : statuses[k] = "completed" THEN "completed"
            ELSE IF \E k \in 1..Len(statuses) : statuses[k] = "triggered" THEN "triggered"
            ELSE "yet_to_start"

\* views.py lines 88-97 without the "if not batches" branch: all() of an
\* empty list is True
view_status_no_empty(bs) ==
    LET statuses == [k \in 1..Len(bs) |-> bs[k].status]
    IN IF \A k \in 1..Len(statuses) : statuses[k] = "completed" THEN "completed"
       ELSE IF \E k \in 1..Len(statuses) : statuses[k] = "triggered" THEN "triggered"
       ELSE "yet_to_start"

\* views.py lines 88-97
view_status(bs) ==
    IF bs = <<>> THEN "yet_to_start"
    ELSE LET statuses == [k \in 1..Len(bs) |-> bs[k].status]
         IN IF \A k \in 1..Len(statuses) : statuses[k] = "completed" THEN "completed"
            ELSE IF \E k \in 1..Len(statuses) : statuses[k] = "triggered" THEN "triggered"
            ELSE "yet_to_start"

\* models.py lines 44-57: IngestionRequest.status
model_status(bs) ==
    IF ~(Len(bs) > 0) THEN "yet_to_start"
    ELSE LET statuses == [k \in 1..Len(bs) |-> bs[k].status]
         IN IF \A k \in 1..Len(statuses) : statuses[k] = COMPLETED THEN "completed"
            ELSE IF \E k \in 1..Len(statuses) : statuses[k] = TRIGGERED THEN "triggered"
            ELSE "yet_to_start"

\* views.py lines 72-113 with the status taken from a value cached when the
\* submission was created instead of the computation of lines 88-97
GetStatus_cached(ingestion_id) ==
    /\ IF ingestion_id \in {requests[k] : k \in 1..Len(requests)}
       THEN LET bs == BatchesOf(ingestion_id)
            IN resp' = [query |-> ingestion_id, code |-> 200, ingestion_id |-> ingestion_id,
                        status |-> "yet_to_start", batches |-> bs]
       ELSE resp' = [NoResp EXCEPT !.query = ingestion_id, !.code = 500]
    /\ UNCHANGED <<req, requests, batches, queue, lock, last_processed_time,
                   processing, worker_thread, worker, tasks, now, stamp>>

\* views.py lines 72-113: Http404 of get_object_or_404 is raised inside the
\* try and caught by except Exception
GetStatus(ingestion_id) ==
    /\ IF ingestion_id \in {requests[k] : k \in 1..Len(requests)}
       THEN LET bs == BatchesOf(ingestion_id)
            IN resp' = [query |-> ingestion_id, code |-> 200, ingestion_id |-> ingestion_id,
                        status |-> view_status(bs), batches |-> bs]
       ELSE resp' = [NoResp EXCEPT !.query = ingestion_id, !.code = 500]
    /\ UNCHANGED <<req, requests, batches, queue, lock, last_processed_time,
                   processing, worker_thread, worker, tasks, now, stamp>>

\* ---------------------------------------------------------------- clock
\* The code reads time.time() only to compare current_time -
\* last_processed_time with rate_limit_seconds (line 100) and to record
\* last_processed_time (line 114).  Once rate_limit_seconds have passed since
\* the last dispatch the comparison cannot change any more, so the clock is
\* modelled while a rate-limit interval is open and stands still after it.
Tick ==
    /\ now - last_processed_time < rate_limit_seconds
    /\ now' = now + 1
    /\ req' = [r \in Reqs |-> [req[r] EXCEPT !.fresh = FALSE]]
    /\ resp' = NoResp
    /\ UNCHANGED <<requests, batches, queue, lock, last_processed_time,
                   processing, worker_thread, worker, tasks, stamp>>

\* ------------------------------------------------------ specifications
\* every thread but the submitting step of ingest and the status queries
Run ==
    \/ \E r \in Reqs : IngestCreate(r)
    \/ \E r \in Reqs : IngestStamp(r)
    \/ \E r \in Reqs : AddBatchesLock(r)
    \/ \E r \in Reqs : AddBatchesStep(r)
    \/ \E r \in Reqs : AddBatchesFinish(r)
    \/ \E w \in Reqs : WorkerCheck(w)
    \/ \E w \in Reqs : WorkerPop(w)
    \/ \E w \in Reqs : WorkerExit(w)
    \/ \E t \in Tasks : TaskTrigger(t)
    \/ \E t \in Tasks : TaskComplete(t)
    \/ \E t \in Tasks : TaskExcept(t)
    \/ Tick

\* concurrent submissions
Next ==
    \/ \E r \in Reqs : IngestValidate(r, Lengths, MaxBatches)
    \/ Run

Spec == Init /\ [][Next]_vars

\* concurrent submissions under a scheduler that lets some thread (or the
\* clock) take a step whenever one can: every thread of the program is a
\* running OS thread, and each of their steps moves a position, a loop index
\* or the clock forward, so no thread can be passed over for ever
SpecLive == Init /\ [][Next]_vars /\ WF_vars(Next)

\* The server after a restart: the tables are as the previous run left them,
\* here one submission with up to MaxRows Batch rows in any mix of statuses,
\* while queue, flag and threads of the BatchProcessor start afresh
StoredRows ==
    UNION {[1..n -> {YET_TO_START, TRIGGERED, COMPLETED}] : n \in 0..MaxRows}

InitStored ==
    /\ req = [r \in Reqs |-> NoReq]
    /\ requests = <<1>>
    /\ \E sts \in StoredRows :
         batches = [k \in 1..Len(sts) |->
                      [ingestion_request |-> 1,
                       ids |-> Chunk(Ids(1, batch_size * Len(sts)), batch_size * (k - 1)),
                       status |-> sts[k]]]
    /\ queue = <<>>
    /\ lock = 0
    /\ last_processed_time = 0
    /\ processing = FALSE
    /\ worker_thread = 0
    /\ worker = [w \in Reqs |-> NoWorker]
    /\ tasks = <<>>
    /\ resp = NoResp
    /\ now = rate_limit_seconds
    /\ stamp = 0

\* status queries against the stored rows
NextStored == \E id \in Reqs : GetStatus(id)

SpecStored == InitStored /\ [][NextStored]_vars

\* concurrent submissions and status queries
NextStatus ==
    \/ Next
    \/ \E id \in Reqs : GetStatus(id)

SpecStatus == Init /\ [][NextStatus]_vars

\* one submission of up to MaxIds ids
NextSingle ==
    \/ IngestValidate(1, 0..MaxIds, NumBatches(MaxIds))
    \/ Run

SpecSingle == Init /\ [][NextSingle]_vars

\* one submission of up to MaxIds ids and status queries
NextSingleStatus ==
    \/ NextSingle
    \/ \E id \in Reqs : GetStatus(id)

SpecSingleStatus == Init /\ [][NextSingleStatus]_vars

\* one submission of up to MaxIds ids, with Processing Tasks whose handler
\* fails as well
NextSingleFail ==
    \/ NextSingle
    \/ \E t \in Tasks : TaskExceptPass(t)

SpecSingleFail == Init /\ [][NextSingleFail]_vars

\* ------------------------------------------------------------------ C1
QueueItems == {queue[k] : k \in 1..Len(queue)}

\* C1: whenever the dispatch loop pops an item (a _process_batch thread is
\* added), no item in the queue at that moment has a strictly more urgent
\* priority class (a smaller priority_value) than the popped item; hence of
\* items enqueued before the first pop every HIGH one is dispatched before
\* any MEDIUM one and every MEDIUM one before any LOW one.
C1_PopsMostUrgent ==
    [][Len(tasks') = Len(tasks) + 1 =>
         \A q \in QueueItems :
             q.priority_value >= tasks'[Len(tasks')].queue_item.priority_value]_vars

\* a more urgent item was dispatched while a less urgent one, enqueued
\* before it, is still waiting in the queue
C1_Witness ==
    \E t \in Tasks, q \in QueueItems :
        /\ q.batch_id < tasks[t].queue_item.batch_id
        /\ q.priority_value > tasks[t].queue_item.priority_value

\* ------------------------------------------------------------------ C2
\* C2: the time recorded for dispatch k+1 (last_processed_time, set at the
\* pop) is at least rate_limit_seconds after the time recorded for dispatch
\* k, whichever worker-thread instances made the two dispatches.
C2_RateLimit ==
    \A k \in 1..(Len(tasks) - 1) : tasks[k + 1].at - tasks[k].at >= rate_limit_seconds

\* two successive dispatches made by different worker-thread instances
C2_Witness ==
    \E k \in 1..(Len(tasks) - 1) :
        /\ tasks[k + 1].by # tasks[k].by
        /\ tasks[k + 1].at = last_processed_time

\* ------------------------------------------------------------------ C3
\* a worker-thread instance that will still examine the queue: it is at the
\* top of the loop or between the two locked sections
WillExamine(w) == worker[w].pc \in {"check", "wait"}

\* an add_batches call is in progress: waiting for the lock or holding it
InAddBatches(r) == req[r].pc \in {"lock", "split"}

\* C3: the start/stop handoff is race-free: in no reachable state is the
\* queue non-empty while no add_batches call is in progress and no
\* dispatch-loop instance is running or about to run that will still examine
\* the queue.
C3_NoStrandedItem ==
    queue # <<>> => \/ \E r \in Reqs : InAddBatches(r)
                    \/ \E w \in Reqs : WillExamine(w)

\* ------------------------------------------------------------------ C4
\* no thread has a step left: every ingest call has returned or was never
\* made, no dispatch loop is alive and every Processing Task has ended
NoThreadRuns ==
    /\ \A r \in Reqs : req[r].pc \in {"idle", "done", "rejected"}
    /\ \A w \in Reqs : ~is_alive(w)
    /\ \A t \in Tasks : tasks[t].pc = "done"

\* C4: under fair scheduling and with no further submission, every batch a
\* successful submit created is dispatched and reaches completed: when all
\* threads have run to their end, every batch is completed and get_status
\* reports completed for every submission.
C4_AllCompleted ==
    NoThreadRuns =>
        /\ \A b \in 1..Len(batches) : batches[b].status = COMPLETED
        /\ \A r \in Reqs : req[r].pc = "done" => view_status(BatchesOf(r)) = "completed"

\* ------------------------------------------------------------------ C5
StatusSteps == {<<YET_TO_START, TRIGGERED>>, <<TRIGGERED, COMPLETED>>}

\* C5: the persisted status of a batch only moves yet_to_start -> triggered
\* -> completed, one step at a time: never reversed, never skipped, the
\* exception path of the Processing Task included.
C5_StatusMonotonic ==
    [][\A b \in 1..Len(batches) :
          batches'[b].status # batches[b].status =>
              <<batches[b].status, batches'[b].status>> \in StatusSteps]_vars

\* ------------------------------------------------------------------ C8
\* C8: of two items of the same priority class, the one with the earlier
\* created_time is popped first: no dispatched item has a later created_time
\* than an equal-priority item dispatched after it or still in the queue.
C8_TimestampOrder ==
    /\ \A t1, t2 \in Tasks :
          (t1 < t2 /\ tasks[t1].queue_item.priority_value
                        = tasks[t2].queue_item.priority_value)
          => tasks[t1].queue_item.created_time <= tasks[t2].queue_item.created_time
    /\ \A t \in Tasks, q \in QueueItems :
          q.priority_value = tasks[t].queue_item.priority_value
          => tasks[t].queue_item.created_time <= q.created_time

\* ------------------------------------------------------------------ C9
Alive == {w \in Reqs : is_alive(w)}

\* C9: at most one dispatch-loop instance exists at any time, and it is the
\* one worker_thread names; a producer that finds no instance alive and the
\* processing flag down leaves add_batches with exactly one instance alive.
C9_OneLoop ==
    /\ [](Cardinality(Alive) <= 1 /\ Alive \subseteq {worker_thread})
    /\ [][\A r \in Reqs :
            (req[r].pc = "split" /\ req'[r].pc = "done" /\ ~processing /\ Alive = {})
            => (Alive' = {r} /\ processing')]_vars

\* a second instance runs after the first one has ended
C9_Witness ==
    \E w1, w2 \in Reqs : worker[w1].pc = "dead" /\ worker[w2].pc = "wait"

\* ----------------------------------------------------------------- C10
\* C10: every queue item is consumed at most once: no two Processing Tasks
\* were launched for the same batch, no popped batch is still in the queue,
\* and no batch is in the queue twice.
C10_ConsumedOnce ==
    /\ \A t1, t2 \in Tasks :
          tasks[t1].queue_item.batch_id = tasks[t2].queue_item.batch_id => t1 = t2
    /\ \A t \in Tasks, k \in 1..Len(queue) :
          queue[k].batch_id # tasks[t].queue_item.batch_id
    /\ \A k1, k2 \in 1..Len(queue) : queue[k1].batch_id = queue[k2].batch_id => k1 = k2

\* every batch of two concurrent submissions was popped, the queue is empty
C10_Witness ==
    /\ Len(tasks) = MaxBatches
    /\ queue = <<>>
    /\ \A r \in Reqs : req[r].pc = "done"

\* ------------------------------------------------------------------ C6
\* the statuses of the Batch rows of submission r
StatusesOf(r) == {batches[b].status : b \in {c \in 1..Len(batches) :
                                                   batches[c].ingestion_request = r}}

\* C6: for a submission that has batches, in any mix of the three statuses,
\* get_status returns completed iff all of them are completed, otherwise
\* triggered iff at least one is triggered, otherwise yet_to_start.
C6_Aggregate ==
    (resp.code = 200 /\ StatusesOf(resp.ingestion_id) # {}) =>
        LET sts == StatusesOf(resp.ingestion_id)
            all_completed == sts = {COMPLETED}
            any_triggered == TRIGGERED \in sts
        IN /\ resp.status = "completed" <=> all_completed
           /\ resp.status = "triggered" <=> (~all_completed /\ any_triggered)
           /\ resp.status = "yet_to_start" <=> (~all_completed /\ ~any_triggered)

\* get_status answers for a submission with a completed batch and a batch
\* not yet started, none triggered
C6_Witness ==
    /\ resp.code = 200
    /\ StatusesOf(resp.ingestion_id) = {COMPLETED, YET_TO_START}
    /\ resp.status = "yet_to_start"

\* ------------------------------------------------------------------ C7
RECURSIVE ConcatIds(_)
ConcatIds(bs) == IF bs = <<>> THEN <<>> ELSE Head(bs).ids \o ConcatIds(Tail(bs))

\* C7: once add_batches has returned for a non-empty id list of length L,
\* the submission has ceil(L/3) batches, each but the last of exactly 3 ids,
\* the last of 1 to 3, and their id lists concatenated in creation order are
\* the original list.
C7_SplitExact ==
    \A r \in Reqs : req[r].pc = "done" =>
        LET bs == BatchesOf(r)
            L == Len(req[r].ids)
            n == Len(bs)
        IN /\ 3 * n >= L /\ 3 * (n - 1) < L
           /\ \A k \in 1..(n - 1) : Len(bs[k].ids) = 3
           /\ n >= 1 /\ Len(bs[n].ids) \in 1..3
           /\ ConcatIds(bs) = req[r].ids

\* a list of 7 ids was split: two full batches and a last one of 1 id
C7_Witness ==
    \E r \in Reqs : /\ req[r].pc = "done"
                    /\ Len(req[r].ids) = 7
                    /\ Len(BatchesOf(r)) = 3
                    /\ Len(BatchesOf(r)[3].ids) = 1

\* ----------------------------------------------------------------- C11
\* the Processing Tasks launched for batches of submission r
PoppedOf(r) == {t \in Tasks : tasks[t].queue_item.ingestion_id = r}

\* get_status answers for a submission whose ingest call has returned
AnswersReturned ==
    /\ resp.code = 200
    /\ req[resp.ingestion_id].pc = "done"

\* C11 as stated: a get_status call issued immediately after ingest has
\* returned, with no time elapsed, reports all ceil(L/3) batch entries of
\* the submission and the aggregate status yet_to_start.
C11_Immediate ==
    (AnswersReturned /\ req[resp.ingestion_id].fresh) =>
        /\ Len(resp.batches) = NumBatches(Len(req[resp.ingestion_id].ids))
        /\ resp.status = "yet_to_start"

\* C11 amended: a get_status call issued after ingest has returned reports
\* all ceil(L/3) batch entries of the submission, and the aggregate status
\* yet_to_start as long as the dispatch loop has popped none of its items;
\* at the return itself none is popped and every batch is yet_to_start, but
\* the loop may pop one before any time elapses.
C11_AfterReturn ==
    /\ [](AnswersReturned =>
            /\ Len(resp.batches) = NumBatches(Len(req[resp.ingestion_id].ids))
            /\ PoppedOf(resp.ingestion_id) = {} => resp.status = "yet_to_start")
    /\ [][\A r \in Reqs :
            (req[r].pc = "split" /\ req'[r].pc = "done")
            => /\ PoppedOf(r)' = {}
               /\ view_status(BatchesOf(r))' = "yet_to_start"]_vars

\* no time has elapsed since ingest returned and get_status reports both
\* batch entries of the submission, the aggregate already triggered
C11_Witness ==
    /\ AnswersReturned
    /\ req[resp.ingestion_id].fresh
    /\ Len(resp.batches) = 2
    /\ resp.status = "triggered"

\* ----------------------------------------------------------------- C12
\* the body is invalid input: a field is missing, the id list is empty or
\* longer than 1000, an id is no integer or out of range, or the priority
\* is none of HIGH, MEDIUM, LOW
Malformed(data) ==
    \/ ~data.has_ids
    \/ ~data.has_priority
    \/ data.ids = <<>>
    \/ Len(data.ids) > 1000
    \/ \E k \in 1..Len(data.ids) :
          \/ ~data.ids[k].is_int
          \/ data.ids[k].value < 1
          \/ data.ids[k].value > 10^9 + 7
    \/ data.priority \notin {"HIGH", "MEDIUM", "LOW"}

\* C12: a submit whose input is invalid is rejected with a validation error
\* (400) and has no side effects: no submission record and no batch of it
\* exists, nothing of it is in the queue or was dispatched, no dispatch loop
\* was started by it, and the rejecting step changes nothing but the
\* request's own outcome.
C12_InvalidRejected ==
    /\ [](\A r \in Reqs :
            (req[r].pc # "idle" /\ Malformed(req[r].data)) =>
                /\ req[r].pc = "rejected"
                /\ req[r].code = 400
                /\ \A k \in 1..Len(requests) : requests[k] # r
                /\ \A b \in 1..Len(batches) : batches[b].ingestion_request # r
                /\ \A q \in QueueItems : q.ingestion_id # r
                /\ PoppedOf(r) = {}
                /\ worker[r].pc = "none")
    /\ [][\A r \in Reqs :
            (req[r].pc = "idle" /\ req'[r].pc # "idle" /\ Malformed(req'[r].data)) =>
                UNCHANGED <<requests, batches, queue, lock, last_processed_time,
                            processing, worker_thread, worker, tasks>>]_vars

\* a body with an id that is no integer was rejected while the batch of
\* another submission has completed
C12_Witness ==
    \E r \in Reqs :
        /\ req[r].pc = "rejected"
        /\ \E k \in 1..Len(req[r].data.ids) : ~req[r].data.ids[k].is_int
        /\ \E b \in 1..Len(batches) : batches[b].status = COMPLETED

\* ----------------------------------------------------------------- C13
\* the ingestion ids of the IngestionRequest table
Known == {requests[k] : k \in 1..Len(requests)}

\* C13: get_status for a submission id that does not exist fails with a
\* NotFound outcome (404), distinct from both a successful status response
\* (200) and an internal-error outcome (500); it leaves all state unchanged.
C13_NotFound ==
    (resp.code # 0 /\ resp.query \notin Known) => resp.code = 404

\* ----------------------------------------------------------------- C14
\* C14: get_status on an existing submission that has zero batches (the
\* window after the submission record is created and before add_batches has
\* persisted any batch) returns 200 with the aggregate status yet_to_start
\* and an empty batch list, not an error.
C14_ZeroBatches ==
    (resp.code # 0 /\ resp.query \in Known /\ BatchesOf(resp.query) = <<>>) =>
        /\ resp.code = 200
        /\ resp.status = "yet_to_start"
        /\ resp.batches = <<>>

\* get_status answers while the ingest call of the submission holds the
\* lock in add_batches and has persisted no batch yet
C14_Witness ==
    /\ resp.code = 200
    /\ resp.batches = <<>>
    /\ req[resp.query].pc = "split"
    /\ req[resp.query].i = 0

\* ----------------------------------------------------------------- C15
\* every ingest call that was made has returned
AllReturned == \A r \in Reqs : req[r].pc \in {"idle", "rejected", "done"}

\* C15: submissions made concurrently each receive a distinct submission
\* id, and once all have returned, a status query for each submission shows
\* exactly its own ceil(L/3) batches containing exactly its own ids, in
\* order: no batch is lost, duplicated or attached to another submission.
C15_OwnBatches ==
    /\ \A k1, k2 \in 1..Len(requests) : requests[k1] = requests[k2] => k1 = k2
    /\ (resp.code = 200 /\ AllReturned) =>
          /\ resp.ingestion_id = resp.query
          /\ Len(resp.batches) = NumBatches(Len(req[resp.query].ids))
          /\ ConcatIds(resp.batches) = req[resp.query].ids
          /\ \A k1, k2 \in 1..Len(resp.batches) :
                resp.batches[k1].batch_id = resp.batches[k2].batch_id => k1 = k2
          /\ \A k \in 1..Len(resp.batches) :
                batches[resp.batches[k].batch_id].ingestion_request = resp.query
          /\ Len(batches) = SumOver(Known, [r \in Known |-> NumBatches(Len(req[r].ids))])

\* two submissions ran concurrently (the one whose record was created
\* second persisted its batch first), both have returned, and get_status
\* answers for the one with two batches
C15_Witness ==
    /\ resp.code = 200
    /\ AllReturned
    /\ Len(requests) = 2
    /\ batches[1].ingestion_request = requests[2]
    /\ Len(resp.batches) = 2

\* ----------------------------------------------------------------- C16
\* C16: if a Processing Task fails at any point of its simulated work (its
\* batch is already saved as triggered), its batch still ends in status
\* completed: no task that has ended leaves its batch triggered.  (The other
\* half, that the failure does not abort the dispatch loop, holds: no step of
\* a Processing Task writes queue, processing or the loop's position.)
C16_FailureCompletes ==
    \A t \in Tasks :
        tasks[t].pc = "done" => batches[tasks[t].queue_item.batch_id].status # TRIGGERED

\* ----------------------------------------------------------------- C17
\* the dispatch loop is between its two locked sections: sleeping, or about
\* to take the lock for the pop
Waiting(w) == worker[w].pc = "wait"

\* a Processing Task body runs
TaskRuns == \E t \in Tasks : tasks[t].pc \in {"get", "work"}

\* C17: the dispatch loop never holds the lock while it waits out the
\* rate-limit interval or while a Processing Task body runs: the lock is then
\* free or held by an add_batches call, so that an add_batches call waiting
\* for it while no other call holds it can acquire it and enqueue; and every
\* pop takes the least item, by priority and then created_time, of the queue
\* as it is at the pop, items enqueued during the wait included.
C17_WaitsUnlocked ==
    /\ []((TaskRuns \/ \E w \in Reqs : Waiting(w)) => lock \in {0} \cup Reqs)
    /\ [](\A w, r \in Reqs :
            (Waiting(w) /\ req[r].pc = "lock" /\ \A r2 \in Reqs : req[r2].pc # "split")
            => ENABLED AddBatchesLock(r))
    /\ [][Len(tasks') = Len(tasks) + 1 =>
            LET popped == tasks'[Len(tasks')].queue_item
            IN \A q \in QueueItems :
                 /\ q.priority_value >= popped.priority_value
                 /\ q.priority_value = popped.priority_value
                    => q.created_time >= popped.created_time]_vars

\* the loop is sleeping and the head of the queue, which the next pop takes,
\* is a more urgent item that was enqueued during this wait, ahead of an
\* item that was in the queue when the wait began
C17_Witness ==
    \E w \in Reqs :
        /\ Waiting(w)
        /\ now < worker[w].until
        /\ lock = 0
        /\ Len(queue) >= 2
        /\ queue[1].batch_id > worker[w].seen
        /\ \E k \in 2..Len(queue) :
              /\ queue[k].batch_id <= worker[w].seen
              /\ queue[1].priority_value < queue[k].priority_value

\* ----------------------------------------------------------------- C18
\* what a get_status call for submission r reports in the current state
Aggregate(r) == view_status(BatchesOf(r))

\* the place of an aggregate status in yet_to_start -> triggered -> completed
Rank(s) == CASE s = "yet_to_start" -> 0 [] s = "triggered" -> 1 [] s = "completed" -> 2

\* C18: the aggregate status of a submission, as successive get_status
\* calls observe it, progresses yet_to_start -> triggered -> completed and
\* never moves backwards: no step takes the status get_status reports for a
\* submission to an earlier one (in particular from triggered back to
\* yet_to_start).
C18_AggregateForward ==
    [][\A r \in Known : Rank(Aggregate(r)') >= Rank(Aggregate(r))]_vars

\* ----------------------------------------------------------------- C19
\* C19: get_status returns yet_to_start for a submission that has batches
\* only when all of its batches are stored as yet_to_start: no answer for a
\* submission with at least one completed batch is yet_to_start.
C19_YetToStartAllPending ==
    (resp.code = 200 /\ resp.status = "yet_to_start") =>
        StatusesOf(resp.query) \subseteq {YET_TO_START}

\* ----------------------------------------------------------------- C20
\* the stored status of the batch of Processing Task t
StatusOfTask(t) == batches[tasks[t].queue_item.batch_id].status

C21_QueueItemsPending ==
    /\ \A k \in 1..Len(queue) :
          /\ queue[k].batch_id \in 1..Len(batches)
          /\ batches[queue[k].batch_id].ids = queue[k].ids
          /\ batches[queue[k].batch_id].ingestion_request = queue[k].ingestion_id
          /\ batches[queue[k].batch_id].status = YET_TO_START
    /\ \A k1, k2 \in 1..Len(queue) : queue[k1].batch_id = queue[k2].batch_id => k1 = k2

\* two items wait in the queue while the batch of an item popped before
\* them is triggered
C21_Witness ==
    /\ Len(queue) >= 2
    /\ \E t \in Tasks : StatusOfTask(t) = TRIGGERED

\* ----------------------------------------------------------------- C22
\* C22: no batch of a submission is dispatched before all batches of that
\* submission have been persisted and enqueued: when an item of a submission
\* has been popped, its add_batches call has returned and all ceil(L/3) rows
\* exist; so a status query that observes one of the submission's batches as
\* triggered or completed observes all ceil(L/3) of them.
C22_AddBatchesAtomic ==
    /\ \A t \in Tasks :
          LET r == tasks[t].queue_item.ingestion_id
          IN /\ req[r].pc = "done"
             /\ Len(BatchesOf(r)) = NumBatches(Len(req[r].ids))
    /\ (resp.code = 200 /\ \E k \in 1..Len(resp.batches) :
                              resp.batches[k].status \in {TRIGGERED, COMPLETED})
       => Len(resp.batches) = NumBatches(Len(req[resp.query].ids))

\* get_status observes the first of two batches as triggered and the second
\* one as well, while the other submission is inside add_batches
C22_Witness ==
    /\ resp.code = 200
    /\ Len(resp.batches) = 2
    /\ resp.batches[1].status = TRIGGERED
    /\ \E r \in Reqs : req[r].pc = "split"

\* ----------------------------------------------------------------- C23
\* C23: the batches of a single submission (all of the same priority_value
\* and created_time) are dispatched in their creation order: of two
\* Processing Tasks launched for the same submission, the one launched
\* first has the batch created first.
C23_CreationOrder ==
    \A t1, t2 \in Tasks :
        (t1 < t2 /\ tasks[t1].queue_item.ingestion_id = tasks[t2].queue_item.ingestion_id)
        => tasks[t1].queue_item.batch_id < tasks[t2].queue_item.batch_id

C25_LoopExits ==
    /\ <>[](Alive = {})
    /\ [][\A w \in Reqs :
            (worker[w].pc # "exiting" /\ worker'[w].pc = "exiting") =>
                /\ queue = <<>>
                /\ queue' = <<>>
                /\ ~processing']_vars
    /\ [](processing => \E w \in Reqs : is_alive(w) /\ WillExamine(w))

\* a loop has exited after dispatching, a second one, started by the later
\* submission, is running with the flag up
C25_Witness ==
    \E w1, w2 \in Reqs :
        /\ worker[w1].pc = "dead"
        /\ WillExamine(w2)
        /\ processing
        /\ tasks # <<>>

\* ----------------------------------------------------------------- C26
\* C26: the dispatch loop does not wait for a Processing Task it has
\* launched: the step that launches one puts the loop at the top of its next
\* iteration, and there it can take its next step whenever the lock is free,
\* whatever the Processing Tasks are doing.  (That a later batch can then be
\* dispatched, and can complete, while an earlier one is still triggered is
\* the reachable state C26_Witness.)
C26_NoJoin ==
    /\ [][\A w \in Reqs :
            (Len(tasks') = Len(tasks) + 1 /\ tasks'[Len(tasks')].by = w)
            => worker'[w].pc = "check"]_vars
    /\ [](\A w \in Reqs :
            (worker[w].pc = "check" /\ lock = 0) => ENABLED WorkerCheck(w))

\* a batch dispatched later has completed while a batch dispatched before
\* it is still triggered, its Processing Task in flight
C26_Witness ==
    \E t1, t2 \in Tasks :
        /\ t1 < t2
        /\ tasks[t1].pc = "work" /\ StatusOfTask(t1) = TRIGGERED
        /\ tasks[t2].pc = "done" /\ StatusOfTask(t2) = COMPLETED

\* ----------------------------------------------------------------- C27
\* C27: the two implementations of the aggregation rule, the
\* IngestionRequest.status property and the computation inside the
\* get_status view, return the same aggregate status for every list of batch
\* statuses, the empty one included: what get_status answers is what the
\* property gives on the same rows.
C27_SameAggregate ==
    /\ \A r \in Known : model_status(BatchesOf(r)) = view_status(BatchesOf(r))
    /\ resp.code = 200 => resp.status = model_status(BatchesOf(resp.query))

\* get_status answers for rows in all three statuses
C27_Witness ==
    /\ resp.code = 200
    /\ StatusesOf(resp.query) = {YET_TO_START, TRIGGERED, COMPLETED}
    /\ resp.status = model_status(resp.batches)

\* ----------------------------------------------------------------- C28
\* the aggregate of a set of stored statuses
AggregateOf(sts) ==
    IF sts = {} THEN "yet_to_start"
    ELSE IF sts = {COMPLETED} THEN "completed"
    ELSE IF TRIGGERED \in sts THEN "triggered"
    ELSE "yet_to_start"

\* C28: get_status is a pure read: the step that answers leaves every batch
\* (status included), the submission records, the queue, the processing
\* flag, last_processed_time, the lock and every thread as they are, and its
\* answer is computed from the batch rows and statuses stored at that
\* moment, not from a cached value.
C28_PureRead ==
    [][resp'.code # 0 =>
         /\ UNCHANGED <<req, requests, batches, queue, lock, last_processed_time,
                        processing, worker_thread, worker, tasks, now, stamp>>
         /\ resp'.code = 200 =>
               /\ resp'.status = AggregateOf(StatusesOf(resp'.query))
               /\ Len(resp'.batches) = Len(BatchesOf(resp'.query))
               /\ \A k \in 1..Len(resp'.batches) :
                     resp'.batches[k].status = batches[resp'.batches[k].batch_id].status]_vars

\* get_status answers triggered while the loop is running and a second
\* item of the submission waits in the queue
C28_Witness ==
    /\ resp.code = 200
    /\ resp.status = "triggered"
    /\ queue # <<>>
    /\ processing

====
